---- MODULE Spec2Model ----
(***************************************************************************)
(* Model of docker_network_collector.py: the DockerNetworkCollector class  *)
(* (resolver, the three export drivers, set_mode, run) and main().         *)
(*                                                                         *)
(* Python values are modelled as follows.                                  *)
(*   - an optional value (None or v) is the sequence <<>> or <<v>>;        *)
(*   - a dict is the sequence of its entries in insertion order, each      *)
(*     entry a record holding its key, keys being distinct;                *)
(*   - an uncaught exception ends the process: the interpreter prints the  *)
(*     traceback and exits with status 1.                                  *)
(***************************************************************************)
EXTENDS Integers, Sequences, FiniteSets, TLC

VARIABLES
    pc,              \* position of the single thread of control
    args,            \* parsed command line: networks, prometheus, influxdb
    environ,         \* process environment: variable name -> optional string
    network_names,   \* self.network_names
    mode,            \* self.mode
    prometheus_port, \* self.prometheus_port (optional)
    influx_config,   \* self.influx_config (optional)
    set_mode_calls,  \* number of set_mode calls made so far
    driver,          \* the run_* method run() has dispatched to, "none" before
    containers,      \* the list the runtime returned to this cycle's query
    last_query,      \* outcome of this cycle's runtime query, "none" before it
    queries,         \* number of get_container_network_interfaces calls made
    interfaces,      \* the driver's local variable `interfaces`
    todo,            \* attachments of `interfaces` the inner loops have not reached
    metrics,         \* container_network_info._metrics: label tuple -> value
    endpoint,        \* state of the pull endpoint: "none", "started", "bind_failed"
    clients,         \* number of InfluxDBClient objects constructed
    writes,          \* write_api.write calls of the current cycle, with outcome
                     \* and the client (by order of construction) they went through
    cycle,           \* number of loop iterations started
    disappeared,     \* this cycle's resolve lost a container the previous one had
    renumbered,      \* this cycle's resolve gave a network of a container, whose
                     \* set of matching networks it left as it was, another id
    scrape,          \* what the last scrape since the clear was served
    missing_vars,    \* main's local missing_vars
    out,             \* lines printed on standard output
    exc,             \* the uncaught exception that ended the process, or "none"
    exit_code        \* process exit status (optional)

vars == <<pc, args, environ, network_names, mode, prometheus_port, influx_config,
          set_mode_calls, driver, containers, last_query, queries, interfaces,
          todo, metrics, endpoint, clients, writes, cycle, disappeared,
          renumbered, scrape, missing_vars, out, exc, exit_code>>

-----------------------------------------------------------------------------
(* Bounds and input sets *)

\* loop iterations a driver is followed for
MaxCycles == 2

None == <<>>
Some(v) == <<v>>

ContainerNames == {"c1", "c2"}
NetworkNames == {"bridge", "host", "other"}

\* values of --networks that are explored (line 169 gives the default)
AllowLists == {{"bridge", "host"}, {"bridge"}, {"host", "other"}}

\* values of --prometheus PORT that are explored
Ports == {0, 9090, 65535}

\* the sequences over S without repetition
DistinctSeqs(S) ==
    UNION {{s \in [1..n -> S] : \A i, j \in 1..n : s[i] = s[j] => i = j} :
           n \in 0..Cardinality(S)}

\* connection metadata the runtime reports for container c on network n;
\* the host network carries neither an address nor a MAC
NetInfo(c, n) ==
    IF n = "host"
      THEN [IPAddress |-> None, MacAddress |-> None]
      ELSE [IPAddress |-> Some("ip-" \o c \o "-" \o n),
            MacAddress |-> Some("mac-" \o c \o "-" \o n)]

\* attrs["NetworkSettings"]["Networks"] of one container: the key is absent
\* (None) or it holds a dict from network name to connection metadata
NetworksOptions(c) ==
    {None} \cup
    {Some([i \in 1..Len(ns) |-> [net_name |-> ns[i], net_info |-> NetInfo(c, ns[i])]]) :
       ns \in DistinctSeqs(NetworkNames)}

\* the lists client.containers.list() can return: container names are
\* unique in the runtime
ContainerLists ==
    UNION {{[i \in 1..Len(cs) |-> [name |-> cs[i], Networks |-> f[i]]] :
              f \in {g \in [1..Len(cs) -> UNION {NetworksOptions(c) : c \in ContainerNames}] :
                       \A i \in 1..Len(cs) : g[i] \in NetworksOptions(cs[i])}} :
           cs \in DistinctSeqs(ContainerNames)}

\* outcomes of client.containers.list(): the list, docker.errors.APIError,
\* or an error of the transport (requests.exceptions.ConnectionError), which
\* is not an APIError
QueryOutcomes == {"ok", "api_error", "conn_error"}

-----------------------------------------------------------------------------
(* get_container_network_interfaces *)

\* dict.get(key, {}) on the Networks key: the default for an absent key
NetworksInfo(container) ==
    IF container.Networks = None THEN <<>> ELSE container.Networks[1]

\* variant: the comprehension without its condition
Keep_all(net_name, allow) == TRUE

\* the comprehension's condition: net_name in self.network_names
Keep(net_name, allow) == net_name \in allow

\* relevant_networks: the entries of networks_info whose name is allowed,
\* in networks_info's order
RelevantNetworks(networks_info, allow) ==
    SelectSeq(networks_info, LAMBDA e : Keep(e.net_name, allow))

\* variant: enumerate counting from one
EthInterface_from1(idx) == "eth" \o ToString(idx + 1)

\* f"eth{idx}"
EthInterface(idx) == "eth" \o ToString(idx)

\* the inner dict of one container: one entry per relevant network,
\* numbered by enumerate()
ContainerEntry(relevant) ==
    [i \in 1..Len(relevant) |->
        [net_name |-> relevant[i].net_name,
         eth_interface |-> EthInterface(i - 1),
         ip_address |-> relevant[i].net_info.IPAddress,
         mac_address |-> relevant[i].net_info.MacAddress]]

\* the number of networks in the entries of an inventory
RECURSIVE TotalNets(_)
TotalNets(ifs) == IF ifs = <<>> THEN 0 ELSE Len(ifs[1].nets) + TotalNets(Tail(ifs))

\* variant: the numbering is not started again for each container
RECURSIVE CollectInterfaces_running(_, _, _)
CollectInterfaces_running(cs, n, allow) ==
    IF n = 0 THEN <<>>
    ELSE LET prev == CollectInterfaces_running(cs, n - 1, allow)
             relevant == RelevantNetworks(NetworksInfo(cs[n]), allow)
         IN IF relevant # <<>>
              THEN Append(prev,
                     [name |-> cs[n].name,
                      nets |-> [i \in 1..Len(relevant) |->
                                  [net_name |-> relevant[i].net_name,
                                   eth_interface |-> EthInterface(TotalNets(prev) + i - 1),
                                   ip_address |-> relevant[i].net_info.IPAddress,
                                   mac_address |-> relevant[i].net_info.MacAddress]]])
              ELSE prev

\* the for loop over containers: container_interfaces after the first n
RECURSIVE CollectInterfaces(_, _, _)
CollectInterfaces(cs, n, allow) ==
    IF n = 0 THEN <<>>
    ELSE LET prev == CollectInterfaces(cs, n - 1, allow)
             relevant == RelevantNetworks(NetworksInfo(cs[n]), allow)
         IN IF relevant # <<>>
              THEN Append(prev, [name |-> cs[n].name, nets |-> ContainerEntry(relevant)])
              ELSE prev

\* except docker.errors.APIError: the only exception the method handles
Caught(outcome) == outcome = "api_error"

\* variant: attrs["NetworkSettings"]["Networks"] read with subscripts, so
\* that an absent key raises KeyError
GetContainerNetworkInterfaces_subscript(outcome, cs, allow) ==
    IF outcome = "ok"
      THEN IF \E k \in 1..Len(cs) : cs[k].Networks = None
             THEN [value |-> <<>>, log |-> <<>>, raised |-> "KeyError"]
             ELSE [value |-> CollectInterfaces(cs, Len(cs), allow), log |-> <<>>,
                   raised |-> "none"]
    ELSE IF Caught(outcome)
      THEN [value |-> <<>>, log |-> <<[kind |-> "docker_api_error", body |-> <<>>]>>,
            raised |-> "none"]
      ELSE [value |-> <<>>, log |-> <<>>, raised |-> outcome]

\* the whole method: the value returned, the line logged, the exception raised
GetContainerNetworkInterfaces(outcome, cs, allow) ==
    IF outcome = "ok"
      THEN [value |-> CollectInterfaces(cs, Len(cs), allow), log |-> <<>>, raised |-> "none"]
    ELSE IF Caught(outcome)
      THEN [value |-> <<>>, log |-> <<[kind |-> "docker_api_error", body |-> <<>>]>>,
            raised |-> "none"]
      ELSE [value |-> <<>>, log |-> <<>>, raised |-> outcome]

\* variant: the inner loop stops after the first network of a container
RECURSIVE Attachments_first(_)
Attachments_first(ifs) ==
    IF ifs = <<>> THEN <<>>
    ELSE <<[container_name |-> ifs[1].name, network_info |-> ifs[1].nets[1]]>>
         \o Attachments_first(Tail(ifs))

\* the (container_name, network_name, network_info) triples in the order of
\* the drivers' nested for loops
RECURSIVE Attachments(_)
Attachments(ifs) ==
    IF ifs = <<>> THEN <<>>
    ELSE [i \in 1..Len(ifs[1].nets) |->
            [container_name |-> ifs[1].name, network_info |-> ifs[1].nets[i]]]
         \o Attachments(Tail(ifs))

-----------------------------------------------------------------------------
(* The sinks *)

\* prometheus_client turns every label value into text with str()
Str(opt) == IF opt = None THEN "None" ELSE opt[1]

\* the label values handed to container_network_info.labels(...)
Labels(a) ==
    <<a.container_name, a.network_info.net_name, a.network_info.eth_interface,
      Str(a.network_info.ip_address), Str(a.network_info.mac_address)>>

EmptyMetrics == [k \in {} |-> 1]

\* variant: the series of earlier cycles are kept
ClearMetrics_keep(m) == m

\* container_network_info._metrics.clear()
ClearMetrics(m) == EmptyMetrics

\* container_network_info.labels(...).set(v): the child is created when
\* the label tuple is new
SetSeries(m, key, v) ==
    [k \in DOMAIN m \cup {key} |-> IF k = key THEN v ELSE m[k]]

\* the Point built for one attachment: three tags and two fields
Point(a) ==
    [measurement |-> "container_network_interface",
     tags |-> <<a.container_name, a.network_info.net_name, a.network_info.eth_interface>>,
     fields |-> <<a.network_info.ip_address, a.network_info.mac_address>>]

-----------------------------------------------------------------------------
(* main: configuration *)

\* the keys of main's influx_config dict, in insertion order
ConfigKeys == <<"url", "token", "org", "bucket">>

\* the environment variable read for each key
EnvName(k) ==
    CASE k = "url" -> "INFLUXDB_URL"
      [] k = "token" -> "INFLUXDB_TOKEN"
      [] k = "org" -> "INFLUXDB_ORG"
      [] k = "bucket" -> "INFLUXDB_BUCKET"

EnvNames == {EnvName(ConfigKeys[i]) : i \in 1..Len(ConfigKeys)}

\* the environments explored: each variable unset, or set to one value
Environs == [EnvNames -> {None, Some("from-env")}]

EmptyEnviron == [n \in EnvNames |-> None]

\* os.getenv(name, default)
Getenv(env, name, default) == IF env[name] = None THEN default ELSE env[name]

\* variant: no variable has a default
EnvDefault_none(k) == None

\* the second argument of each os.getenv call
EnvDefault(k) == IF k = "url" THEN Some("http://localhost:8086") ELSE None

\* main's influx_config dict
InfluxConfigFromEnv(env) ==
    [k \in {ConfigKeys[i] : i \in 1..Len(ConfigKeys)} |->
        Getenv(env, EnvName(k), EnvDefault(k))]

\* [k for k, v in influx_config.items() if v is None]
MissingVars(cfg) == SelectSeq(ConfigKeys, LAMBDA k : cfg[k] = None)

\* truth value of args.prometheus: None and 0 are false
TruthyPort(p) == p # None /\ p[1] # 0

\* the command lines explored: argparse rejects --prometheus with --influxdb
ArgsSet ==
    {a \in [networks : AllowLists,
            prometheus : {None} \cup {Some(q) : q \in Ports},
            influxdb : BOOLEAN] :
        ~(a.prometheus # None /\ a.influxdb)}

\* kwargs.get(key)
KwGet(kwargs, key) == IF key \in DOMAIN kwargs THEN Some(kwargs[key]) ELSE None

\* variant: both configuration fields are assigned whatever the mode
SetMode_unconditional(m, kwargs) ==
    /\ mode' = m
    /\ prometheus_port' = KwGet(kwargs, "port")
    /\ influx_config' = Some(kwargs)
    /\ set_mode_calls' = set_mode_calls + 1

\* set_mode(m, **kwargs)
SetMode(m, kwargs) ==
    /\ mode' = m
    /\ prometheus_port' = IF m = "prometheus" THEN KwGet(kwargs, "port")
                          ELSE prometheus_port
    /\ influx_config' = IF m # "prometheus" /\ m = "influxdb" THEN Some(kwargs)
                        ELSE influx_config
    /\ set_mode_calls' = set_mode_calls + 1

\* an exception no handler catches, or sys.exit(1)
Crash(kind) ==
    /\ pc' = "exited"
    /\ exc' = kind
    /\ exit_code' = Some(1)

Line(kind) == [kind |-> kind, body |-> <<>>]

-----------------------------------------------------------------------------
(* The process *)

\* the state when main has parsed the command line and constructed the
\* collector (lines 192-194); the environment is only read under --influxdb
\* and is explored there
Init ==
    /\ pc = "main"
    /\ args \in ArgsSet
    /\ environ \in Environs
    /\ args.influxdb \/ environ = EmptyEnviron
    /\ network_names = args.networks
    /\ mode = "local"
    /\ prometheus_port = None
    /\ influx_config = None
    /\ set_mode_calls = 0
    /\ driver = "none"
    /\ containers = <<>>
    /\ last_query = "none"
    /\ queries = 0
    /\ interfaces = <<>>
    /\ todo = <<>>
    /\ metrics = EmptyMetrics
    /\ endpoint = "none"
    /\ clients = 0
    /\ writes = <<>>
    /\ cycle = 0
    /\ disappeared = FALSE
    /\ renumbered = FALSE
    /\ scrape = "none"
    /\ missing_vars = <<>>
    /\ out = <<>>
    /\ exc = "none"
    /\ exit_code = None

\* main, lines 196-217: choose the mode from the command line
Main ==
    /\ pc = "main"
    /\ IF TruthyPort(args.prometheus)
         THEN /\ SetMode("prometheus", [port |-> args.prometheus[1]])
              /\ pc' = "run"
              /\ UNCHANGED <<missing_vars, out, exc, exit_code>>
       ELSE IF args.influxdb
         THEN LET cfg == InfluxConfigFromEnv(environ)
                  missing == MissingVars(cfg)
              IN /\ missing_vars' = missing
                 /\ IF missing # <<>>
                      THEN /\ out' = Append(out, [kind |-> "missing_env", body |-> missing])
                           /\ Crash("SystemExit")
                           /\ UNCHANGED <<mode, prometheus_port, influx_config,
                                          set_mode_calls>>
                      ELSE /\ SetMode("influxdb", cfg)
                           /\ pc' = "run"
                           /\ UNCHANGED <<out, exc, exit_code>>
         ELSE /\ pc' = "run"
              /\ UNCHANGED <<mode, prometheus_port, influx_config, set_mode_calls,
                             missing_vars, out, exc, exit_code>>
    /\ UNCHANGED <<args, environ, network_names, driver, containers, last_query,
                   queries, interfaces, todo, metrics, endpoint, clients, writes,
                   cycle, disappeared, renumbered, scrape>>

\* the method run() calls for a mode
Dispatch(m) ==
    IF m = "prometheus" THEN "prometheus"
    ELSE IF m = "influxdb" THEN "influxdb"
    ELSE "local"

\* run(), up to the call of the driver
Run ==
    /\ pc = "run"
    /\ driver' = Dispatch(mode)
    /\ pc' = CASE Dispatch(mode) = "prometheus" -> "prom_start"
               [] Dispatch(mode) = "influxdb" -> "influx_start"
               [] OTHER -> "local"
    /\ UNCHANGED <<args, environ, network_names, mode, prometheus_port,
                   influx_config, set_mode_calls, containers, last_query, queries,
                   interfaces, todo, metrics, endpoint, clients, writes, cycle,
                   disappeared, renumbered, scrape, missing_vars, out, exc, exit_code>>

\* the network names of an entry of an inventory, in its order
NetSeq(entry) == [j \in 1..Len(entry.nets) |-> entry.nets[j].net_name]

\* between two inventories, a container has the same set of networks and
\* one of them two different ids
Renumbered(old, new) ==
    \E i \in 1..Len(old) : \E j \in 1..Len(new) :
        /\ old[i].name = new[j].name
        /\ {NetSeq(old[i])[a] : a \in 1..Len(old[i].nets)}
              = {NetSeq(new[j])[b] : b \in 1..Len(new[j].nets)}
        /\ \E a \in 1..Len(old[i].nets) : \E b \in 1..Len(new[j].nets) :
              /\ old[i].nets[a].net_name = new[j].nets[b].net_name
              /\ old[i].nets[a].eth_interface # new[j].nets[b].eth_interface

\* one call of get_container_network_interfaces by a driver: the runtime
\* answers with outcome o and list cs; `after` is the position reached when
\* the call returns and the result has no attachment, `loop` the position
\* when it has one
Resolve(o, cs, loop, after) ==
    LET r == GetContainerNetworkInterfaces(o, cs, network_names)
    IN /\ last_query' = o
       /\ containers' = cs
       /\ queries' = queries + 1
       /\ out' = out \o r.log
       /\ IF r.raised # "none"
            THEN /\ Crash(r.raised)
                 /\ UNCHANGED <<interfaces, todo, disappeared, renumbered, scrape>>
            ELSE /\ interfaces' = r.value
                 /\ todo' = Attachments(r.value)
                 /\ disappeared' =
                      \E i \in 1..Len(interfaces) :
                         \A j \in 1..Len(r.value) : r.value[j].name # interfaces[i].name
                 /\ renumbered' = Renumbered(interfaces, r.value)
                 /\ scrape' = IF scrape = "cleared"
                                THEN (IF r.value # <<>> THEN "in_between" ELSE "complete")
                                ELSE scrape
                 /\ pc' = IF Attachments(r.value) = <<>> THEN after ELSE loop
                 /\ UNCHANGED <<exc, exit_code>>

\* the answers of the runtime explored: a list only when the query succeeds
Answers == {<<o, cs>> \in QueryOutcomes \X ContainerLists : o = "ok" \/ cs = <<>>}

-----------------------------------------------------------------------------
(* run_local_output *)

\* the line run_local_output prints for an inventory
LocalLine(ifs) ==
    IF ifs # <<>> THEN [kind |-> "json", body |-> ifs] ELSE Line("no_containers")

\* the whole method, and the return of main after it
LocalOutput ==
    /\ pc = "local"
    /\ \E ans \in Answers :
         LET r == GetContainerNetworkInterfaces(ans[1], ans[2], network_names)
         IN /\ last_query' = ans[1]
            /\ containers' = ans[2]
            /\ queries' = queries + 1
            /\ IF r.raised # "none"
                 THEN /\ Crash(r.raised)
                      /\ UNCHANGED <<interfaces, out>>
                 ELSE /\ interfaces' = r.value
                      /\ out' = (out \o r.log) \o <<LocalLine(r.value)>>
                      /\ pc' = "exited"
                      /\ exit_code' = Some(0)
                      /\ UNCHANGED exc
    /\ UNCHANGED <<args, environ, network_names, mode, prometheus_port,
                   influx_config, set_mode_calls, driver, todo, metrics, endpoint,
                   clients, writes, cycle, disappeared, renumbered, scrape, missing_vars>>

-----------------------------------------------------------------------------
(* run_prometheus_exporter *)

\* variant: a port that cannot be bound does not stop the driver
PromStart_ignoring_bind ==
    /\ pc = "prom_start"
    /\ \E bind_ok \in BOOLEAN :
         /\ endpoint' = IF bind_ok THEN "started" ELSE "bind_failed"
         /\ out' = Append(out, Line("prometheus_started"))
         /\ pc' = "prom_clear"
    /\ UNCHANGED <<args, environ, network_names, mode, prometheus_port,
                   influx_config, set_mode_calls, driver, containers, last_query,
                   queries, interfaces, todo, metrics, clients, writes, cycle,
                   disappeared, renumbered, scrape, missing_vars, exc, exit_code>>

\* variant: the ImportError handler prints and returns, without sys.exit(1)
PromStart_no_exit ==
    /\ pc = "prom_start"
    /\ \E lib_ok, bind_ok \in BOOLEAN :
         IF ~lib_ok
           THEN /\ out' = out \o <<Line("prometheus_client_required"),
                                   Line("pip_install_prometheus_client")>>
                /\ pc' = "exited"
                /\ exit_code' = Some(0)
                /\ UNCHANGED <<endpoint, exc>>
         ELSE IF ~bind_ok
           THEN /\ endpoint' = "bind_failed"
                /\ Crash("OSError")
                /\ UNCHANGED out
           ELSE /\ endpoint' = "started"
                /\ out' = Append(out, Line("prometheus_started"))
                /\ pc' = "prom_clear"
                /\ UNCHANGED <<exc, exit_code>>
    /\ UNCHANGED <<args, environ, network_names, mode, prometheus_port,
                   influx_config, set_mode_calls, driver, containers, last_query,
                   queries, interfaces, todo, metrics, clients, writes, cycle,
                   disappeared, renumbered, scrape, missing_vars>>

\* lines 59-70 and 88-91: the import, the Gauge, start_http_server.  The
\* import can fail (ImportError, handled: two lines and sys.exit(1)) and the
\* port may not be bound (OSError, which no handler catches)
PromStart ==
    /\ pc = "prom_start"
    /\ \E lib_ok, bind_ok \in BOOLEAN :
         IF ~lib_ok
           THEN /\ out' = out \o <<Line("prometheus_client_required"),
                                   Line("pip_install_prometheus_client")>>
                /\ Crash("SystemExit")
                /\ UNCHANGED endpoint
         ELSE IF ~bind_ok
           THEN /\ endpoint' = "bind_failed"
                /\ Crash("OSError")
                /\ UNCHANGED out
           ELSE /\ endpoint' = "started"
                /\ out' = Append(out, Line("prometheus_started"))
                /\ pc' = "prom_clear"
                /\ UNCHANGED <<exc, exit_code>>
    /\ UNCHANGED <<args, environ, network_names, mode, prometheus_port,
                   influx_config, set_mode_calls, driver, containers, last_query,
                   queries, interfaces, todo, metrics, clients, writes, cycle,
                   disappeared, renumbered, scrape, missing_vars>>

\* line 73, the first statement of an iteration
PromClear ==
    /\ pc = "prom_clear"
    /\ cycle < MaxCycles
    /\ cycle' = cycle + 1
    /\ metrics' = ClearMetrics(metrics)
    /\ pc' = "prom_resolve"
    /\ scrape' = "none"
    /\ UNCHANGED <<args, environ, network_names, mode, prometheus_port,
                   influx_config, set_mode_calls, driver, containers, last_query,
                   queries, interfaces, todo, endpoint, clients, writes,
                   disappeared, renumbered, missing_vars, out, exc, exit_code>>

\* line 74
PromResolve ==
    /\ pc = "prom_resolve"
    /\ \E ans \in Answers : Resolve(ans[1], ans[2], "prom_publish", "prom_sleep")
    /\ UNCHANGED <<args, environ, network_names, mode, prometheus_port,
                   influx_config, set_mode_calls, driver, metrics, endpoint,
                   clients, writes, cycle, missing_vars>>

\* lines 78-84 for one attachment
PromPublish ==
    /\ pc = "prom_publish"
    /\ metrics' = SetSeries(metrics, Labels(Head(todo)), 1)
    /\ todo' = Tail(todo)
    /\ pc' = IF Tail(todo) = <<>> THEN "prom_sleep" ELSE "prom_publish"
    /\ UNCHANGED <<args, environ, network_names, mode, prometheus_port,
                   influx_config, set_mode_calls, driver, containers, last_query,
                   queries, interfaces, endpoint, clients, writes, cycle,
                   disappeared, renumbered, scrape, missing_vars, out, exc, exit_code>>

\* variant: the next iteration starts at the resolver call, not at the clear
PromSleep_skip_clear ==
    /\ pc = "prom_sleep"
    /\ cycle < MaxCycles
    /\ cycle' = cycle + 1
    /\ pc' = "prom_resolve"
    /\ containers' = <<>>
    /\ last_query' = "none"
    /\ disappeared' = FALSE
    /\ renumbered' = FALSE
    /\ UNCHANGED <<args, environ, network_names, mode, prometheus_port,
                   influx_config, set_mode_calls, driver, queries, interfaces,
                   todo, metrics, endpoint, clients, writes, scrape,
                   missing_vars, out, exc, exit_code>>

\* line 86: time.sleep(15) returns and the loop goes round
PromSleep ==
    /\ pc = "prom_sleep"
    /\ pc' = "prom_clear"
    /\ containers' = <<>>
    /\ last_query' = "none"
    /\ disappeared' = FALSE
    /\ renumbered' = FALSE
    /\ UNCHANGED <<args, environ, network_names, mode, prometheus_port,
                   influx_config, set_mode_calls, driver, queries, interfaces,
                   todo, metrics, endpoint, clients, writes, cycle, scrape,
                   missing_vars, out, exc, exit_code>>

\* the label tuples the publish step of an inventory ends with
Published(ifs) ==
    {Labels(Attachments(ifs)[i]) : i \in 1..Len(Attachments(ifs))}

\* the first cycle has published all its series
FirstCycleCompleted ==
    cycle >= 2 \/ (cycle = 1 /\ pc \in {"prom_sleep", "prom_clear"})

\* a scrape of the endpoint start_http_server has started: it is served by
\* the server's own thread, at any position of the loop, from the series
\* _metrics holds at that instant.  Scrapes are followed once the first
\* cycle is over.  What was served is recorded as
\*   "complete"   the series of the latest inventory, all of them,
\*   "cleared"    nothing, between the clear and the resolver's return, the
\*                inventory before having had attachments: Resolve turns it
\*                into "in_between" when the new inventory has some too,
\*   "partial"    during the publish step, not yet all series of the
\*                cycle's inventory.
Scrape ==
    /\ endpoint = "started"
    /\ pc \in {"prom_clear", "prom_resolve", "prom_publish", "prom_sleep"}
    /\ FirstCycleCompleted
    /\ scrape' = IF DOMAIN metrics = Published(interfaces) THEN "complete"
                 ELSE IF pc = "prom_resolve" THEN "cleared"
                 ELSE "partial"
    /\ UNCHANGED <<pc, args, environ, network_names, mode, prometheus_port,
                   influx_config, set_mode_calls, driver, containers, last_query,
                   queries, interfaces, todo, metrics, endpoint, clients, writes,
                   cycle, disappeared, renumbered, missing_vars, out, exc,
                   exit_code>>

-----------------------------------------------------------------------------
(* run_influxdb_exporter *)

\* lines 95-106 and 130-133: the imports, the client, the write api
InfluxStart ==
    /\ pc = "influx_start"
    /\ \E lib_ok \in BOOLEAN :
         IF ~lib_ok
           THEN /\ out' = out \o <<Line("influxdb_client_required"),
                                   Line("pip_install_influxdb_client")>>
                /\ Crash("SystemExit")
                /\ UNCHANGED clients
           ELSE /\ clients' = clients + 1
                /\ out' = Append(out, Line("influxdb_started"))
                /\ pc' = "influx_resolve"
                /\ UNCHANGED <<exc, exit_code>>
    /\ UNCHANGED <<args, environ, network_names, mode, prometheus_port,
                   influx_config, set_mode_calls, driver, containers, last_query,
                   queries, interfaces, todo, metrics, endpoint, writes, cycle,
                   disappeared, renumbered, scrape, missing_vars>>

\* line 109, the first statement of an iteration
InfluxResolve ==
    /\ pc = "influx_resolve"
    /\ cycle < MaxCycles
    /\ cycle' = cycle + 1
    /\ writes' = <<>>
    /\ \E ans \in Answers : Resolve(ans[1], ans[2], "influx_write", "influx_sleep")
    /\ UNCHANGED <<args, environ, network_names, mode, prometheus_port,
                   influx_config, set_mode_calls, driver, metrics, endpoint,
                   clients, missing_vars>>

\* lines 113-126 for one attachment: the write succeeds, or raises an
\* error of the client library, which no handler catches
InfluxWrite ==
    /\ pc = "influx_write"
    /\ \E ok \in BOOLEAN :
         /\ writes' = Append(writes, [point |-> Point(Head(todo)), ok |-> ok,
                                      client |-> clients])
         /\ IF ok
              THEN /\ todo' = Tail(todo)
                   /\ pc' = IF Tail(todo) = <<>> THEN "influx_sleep" ELSE "influx_write"
                   /\ UNCHANGED <<exc, exit_code>>
              ELSE /\ Crash("write_error")
                   /\ UNCHANGED todo
    /\ UNCHANGED <<args, environ, network_names, mode, prometheus_port,
                   influx_config, set_mode_calls, driver, containers, last_query,
                   queries, interfaces, metrics, endpoint, clients, cycle,
                   disappeared, renumbered, scrape, missing_vars, out>>

\* variant: the client is constructed again in every iteration
InfluxSleep_reconnect ==
    /\ pc = "influx_sleep"
    /\ pc' = "influx_resolve"
    /\ containers' = <<>>
    /\ last_query' = "none"
    /\ disappeared' = FALSE
    /\ renumbered' = FALSE
    /\ clients' = clients + 1
    /\ UNCHANGED <<args, environ, network_names, mode, prometheus_port,
                   influx_config, set_mode_calls, driver, queries, interfaces,
                   todo, metrics, endpoint, writes, cycle, scrape,
                   missing_vars, out, exc, exit_code>>

\* line 128: time.sleep(15) returns and the loop goes round
InfluxSleep ==
    /\ pc = "influx_sleep"
    /\ pc' = "influx_resolve"
    /\ containers' = <<>>
    /\ last_query' = "none"
    /\ disappeared' = FALSE
    /\ renumbered' = FALSE
    /\ UNCHANGED <<args, environ, network_names, mode, prometheus_port,
                   influx_config, set_mode_calls, driver, queries, interfaces,
                   todo, metrics, endpoint, clients, writes, cycle, scrape,
                   missing_vars, out, exc, exit_code>>

-----------------------------------------------------------------------------

Next ==
    \/ Main
    \/ Run
    \/ LocalOutput
    \/ PromStart
    \/ PromClear
    \/ PromResolve
    \/ PromPublish
    \/ PromSleep
    \/ Scrape
    \/ InfluxStart
    \/ InfluxResolve
    \/ InfluxWrite
    \/ InfluxSleep

Spec == Init /\ [][Next]_vars

-----------------------------------------------------------------------------
(* The collector used as an object: set_mode called any number of times,
   then run *)

\* set_mode calls followed before run
MaxSetModeCalls == 3

\* the mode strings explored: the two sinks, the constructor's default and
\* a string the class does not know
ModeStrings == {"prometheus", "influxdb", "local", "file"}

\* the keyword arguments explored: a port, main's dict, none at all
KwargsSet ==
    {[port |-> 9090], [port |-> 8000],
     InfluxConfigFromEnv([n \in EnvNames |-> Some("from-env")]),
     [k \in {} |-> None]}

\* the collector as constructed by __init__, run() not yet called
InitApi ==
    /\ pc = "run"
    /\ network_names \in AllowLists
    /\ args = [networks |-> network_names, prometheus |-> None, influxdb |-> FALSE]
    /\ environ = EmptyEnviron
    /\ mode = "local"
    /\ prometheus_port = None
    /\ influx_config = None
    /\ set_mode_calls = 0
    /\ driver = "none"
    /\ containers = <<>>
    /\ last_query = "none"
    /\ queries = 0
    /\ interfaces = <<>>
    /\ todo = <<>>
    /\ metrics = EmptyMetrics
    /\ endpoint = "none"
    /\ clients = 0
    /\ writes = <<>>
    /\ cycle = 0
    /\ disappeared = FALSE
    /\ renumbered = FALSE
    /\ scrape = "none"
    /\ missing_vars = <<>>
    /\ out = <<>>
    /\ exc = "none"
    /\ exit_code = None

\* a call of set_mode by the owner of the collector
ApiSetMode ==
    /\ pc = "run"
    /\ set_mode_calls < MaxSetModeCalls
    /\ \E m \in ModeStrings : \E kwargs \in KwargsSet : SetMode(m, kwargs)
    /\ UNCHANGED <<pc, args, environ, network_names, driver, containers,
                   last_query, queries, interfaces, todo, metrics, endpoint,
                   clients, writes, cycle, disappeared, renumbered, scrape,
                   missing_vars, out, exc, exit_code>>

NextApi ==
    \/ ApiSetMode
    \/ Run

SpecApi == InitApi /\ [][NextApi]_vars

-----------------------------------------------------------------------------
(* Properties *)

QueryFailed == last_query \in {"api_error", "conn_error"}

\* the lines of standard output of the given kinds
LinesOf(kinds) == {i \in 1..Len(out) : out[i].kind \in kinds}

\* C1: in the push-sink driver a failed write of one point never ends the
\* loop or the process: after a failed write the driver is still running,
\* about to attempt the next point or the next cycle.
C1_WriteFailureKeepsLoopRunning ==
    (driver = "influxdb" /\ writes # <<>> /\ ~writes[Len(writes)].ok)
        => pc \in {"influx_write", "influx_sleep", "influx_resolve"}

\* C2: whatever the kind of runtime-query failure, the resolver returns the
\* empty inventory and no exception leaves it.
C2_QueryFailureReturnsEmpty ==
    QueryFailed => (exc = "none" /\ interfaces = <<>>)

\* the label tuples of the attachments of an inventory
SeriesOf(ifs) ==
    UNION {{<<ifs[i].name, ifs[i].nets[j].net_name, ifs[i].nets[j].eth_interface,
              Str(ifs[i].nets[j].ip_address), Str(ifs[i].nets[j].mac_address)>> :
               j \in 1..Len(ifs[i].nets)} : i \in 1..Len(ifs)}

NamesOf(ifs) == {ifs[i].name : i \in 1..Len(ifs)}

\* C3: in the gauge-sink driver, when the publish step of a cycle is over
\* the published series are exactly the attachments of that cycle's
\* resolver result, one series each, all with value 1; a container of an
\* earlier cycle that is absent from the result has no series left.
C3_PublishedEqualsResult ==
    pc = "prom_sleep" =>
        /\ DOMAIN metrics = SeriesOf(interfaces)
        /\ Cardinality(DOMAIN metrics) = Len(Attachments(interfaces))
        /\ \A k \in DOMAIN metrics : metrics[k] = 1 /\ k[1] \in NamesOf(interfaces)

\* C3 witness: a second cycle has published a non-empty set after a
\* container of the first cycle has gone.
C3_Witness ==
    /\ pc = "prom_sleep"
    /\ cycle >= 2
    /\ disappeared
    /\ DOMAIN metrics # {}

UnsetVars == {n \in EnvNames : environ[n] = None}

\* the variables named by the missing-variables line on standard output
ReportedVars ==
    UNION {{EnvName(out[i].body[j]) : j \in 1..Len(out[i].body)} :
           i \in LinesOf({"missing_env"})}

StartupFailedBeforeClient ==
    /\ pc = "exited"
    /\ exit_code = Some(1)
    /\ LinesOf({"missing_env"}) # {}
    /\ driver = "none"
    /\ clients = 0
    /\ cycle = 0
    /\ queries = 0

\* C4 as stated: under --influxdb, if any of the four variables is unset,
\* startup fails with exit code 1 before a client is created or a cycle
\* runs, and the reported names are exactly the unset variables.
C4_AnyUnsetVariableFailsStartup ==
    (args.influxdb /\ pc # "main" /\ UnsetVars # {})
        => (StartupFailedBeforeClient /\ ReportedVars = UnsetVars)

\* the variables read without a default
RequiredVars == {"INFLUXDB_TOKEN", "INFLUXDB_ORG", "INFLUXDB_BUCKET"}

\* C4 amended: under --influxdb, if any of the token, organization and
\* bucket variables is unset, startup fails with exit code 1 before a client
\* is created or a cycle runs, and the reported names are exactly the unset
\* ones among these three; an unset endpoint URL is never reported and is
\* replaced by http://localhost:8086, so with the other three set the
\* driver is started.
C4_UnsetRequiredVariableFailsStartup ==
    (args.influxdb /\ pc # "main") =>
        /\ ReportedVars = UnsetVars \cap RequiredVars
        /\ (UnsetVars \cap RequiredVars # {}) => StartupFailedBeforeClient
        /\ (UnsetVars \cap RequiredVars = {}) =>
              /\ LinesOf({"missing_env"}) = {}
              /\ influx_config # None
              /\ influx_config[1].url =
                    IF environ["INFLUXDB_URL"] = None THEN Some("http://localhost:8086")
                    ELSE environ["INFLUXDB_URL"]

\* C4 witness: startup has failed with two of the three required variables
\* unset, the URL unset as well, and exactly those two reported.
C4_Witness ==
    /\ args.influxdb
    /\ UnsetVars = {"INFLUXDB_URL", "INFLUXDB_TOKEN", "INFLUXDB_BUCKET"}
    /\ pc = "exited"
    /\ exit_code = Some(1)
    /\ ReportedVars = {"INFLUXDB_TOKEN", "INFLUXDB_BUCKET"}

\* the network names the runtime reports for a container
NetNamesOf(c) ==
    IF c.Networks = None THEN {}
    ELSE {c.Networks[1][j].net_name : j \in 1..Len(c.Networks[1])}

\* C5: when the runtime query succeeds, the result's keys are exactly the
\* containers with at least one attachment on an allowed network, each key
\* once, and each entry's keys are exactly the container's attached networks
\* that are allowed; a container attached only outside the allow-list is
\* absent.
C5_ResultIsFilteredInventory ==
    last_query = "ok" =>
        /\ NamesOf(interfaces) =
              {containers[i].name : i \in {k \in 1..Len(containers) :
                  NetNamesOf(containers[k]) \cap network_names # {}}}
        /\ Cardinality(NamesOf(interfaces)) = Len(interfaces)
        /\ \A i \in 1..Len(interfaces) : \A k \in 1..Len(containers) :
              containers[k].name = interfaces[i].name =>
                 /\ {interfaces[i].nets[j].net_name : j \in 1..Len(interfaces[i].nets)}
                       = NetNamesOf(containers[k]) \cap network_names
                 /\ Len(interfaces[i].nets)
                       = Cardinality(NetNamesOf(containers[k]) \cap network_names)

\* C5 witness: a successful query in which one container, attached only
\* outside the allow-list, is left out and another is kept with fewer
\* networks than it is attached to.
C5_Witness ==
    /\ last_query = "ok"
    /\ \E k \in 1..Len(containers) :
          /\ NetNamesOf(containers[k]) # {}
          /\ containers[k].name \notin NamesOf(interfaces)
    /\ \E i \in 1..Len(interfaces) : \E k \in 1..Len(containers) :
          /\ containers[k].name = interfaces[i].name
          /\ Len(interfaces[i].nets) < Cardinality(NetNamesOf(containers[k]))

\* the interface id with number n, written out
EthId(n) ==
    CASE n = 0 -> "eth0" [] n = 1 -> "eth1" [] n = 2 -> "eth2" [] n = 3 -> "eth3"
      [] OTHER -> "eth?"

\* the number of allowed networks before position p of a container's list
AllowedBefore(nets, p) ==
    Cardinality({q \in 1..(p - 1) : nets[q].net_name \in network_names})

\* C6: for every container of the result with k >= 1 matching networks the
\* interface ids are exactly eth0 .. eth(k-1), none missing and none twice,
\* and the id of a network is its zero-based position among the container's
\* allowed networks in the runtime's order, not among all its networks.
C6_IdsAreFilteredPositions ==
    last_query = "ok" =>
        \A i \in 1..Len(interfaces) :
            LET nets == interfaces[i].nets
                k == Len(nets)
                ids == {nets[j].eth_interface : j \in 1..k}
            IN /\ k >= 1
               /\ ids = {EthId(n) : n \in 0..(k - 1)}
               /\ Cardinality(ids) = k
               /\ \A c \in 1..Len(containers) :
                     containers[c].name = interfaces[i].name =>
                        \A p \in 1..Len(NetworksInfo(containers[c])) :
                           \A j \in 1..k :
                              NetworksInfo(containers[c])[p].net_name = nets[j].net_name
                                 => nets[j].eth_interface
                                       = EthId(AllowedBefore(NetworksInfo(containers[c]), p))

\* C6 witness: a container with two matching networks, one of which comes
\* after a network outside the allow-list, so that its id differs from its
\* position among all the container's networks.
C6_Witness ==
    /\ last_query = "ok"
    /\ \E i \in 1..Len(interfaces) : \E c \in 1..Len(containers) :
          /\ containers[c].name = interfaces[i].name
          /\ Len(interfaces[i].nets) = 2
          /\ \E p \in 1..Len(NetworksInfo(containers[c])) :
                /\ NetworksInfo(containers[c])[p].net_name \in network_names
                /\ AllowedBefore(NetworksInfo(containers[c]), p) # p - 1

\* C7: in both continuous drivers, a runtime-query failure in a cycle makes
\* the cycle publish nothing (gauge sink: the series cleared and none
\* republished) and the loop goes on; the process is never ended by it.
C7_QueryFailureKeepsLoopRunning ==
    (driver \in {"prometheus", "influxdb"} /\ cycle >= 1 /\ QueryFailed) =>
        /\ pc # "exited"
        /\ exc = "none"
        /\ todo = <<>>
        /\ writes = <<>>
        /\ metrics = EmptyMetrics

\* C8: in the gauge-sink driver the endpoint is started before the first
\* cycle, and if the port cannot be bound the process ends with a diagnostic
\* and a non-zero status without having cleared, resolved or published.
C8_BindFailureIsFatalBeforeLoop ==
    /\ (driver = "prometheus" /\ cycle >= 1) => endpoint = "started"
    /\ endpoint = "bind_failed" =>
          /\ pc = "exited"
          /\ exc = "OSError"
          /\ exit_code # None /\ exit_code[1] # 0
          /\ cycle = 0
          /\ queries = 0
          /\ last_query = "none"
          /\ metrics = EmptyMetrics

\* C8 witness: the port could not be bound and the process has ended.
C8_Witness ==
    /\ driver = "prometheus"
    /\ endpoint = "bind_failed"
    /\ pc = "exited"

\* the driver the command line asks for
RequestedDriver ==
    IF args.prometheus # None THEN "prometheus"
    ELSE IF args.influxdb THEN "influxdb"
    ELSE "local"

\* C9: the mode is set at most once before run(), run() dispatches to one
\* driver, the gauge sink whenever a port is supplied (any uint16 value),
\* the push sink whenever the push flag is, local-once otherwise, and mode
\* and configuration do not change afterwards.
C9_DispatchFollowsCommandLine ==
    /\ set_mode_calls <= 1
    /\ driver # "none" =>
          /\ driver = RequestedDriver
          /\ mode = RequestedDriver
          /\ (driver = "prometheus" => prometheus_port = args.prometheus)

\* C10: the local-once driver calls the resolver once, writes one output,
\* the fixed notice exactly when the inventory is empty and the rendering of
\* the inventory otherwise, and ends without a second cycle, also when the
\* runtime query fails.
C10_LocalOnceWritesOneOutput ==
    (driver = "local" /\ RequestedDriver = "local" /\ pc = "exited") =>
        /\ queries = 1
        /\ cycle = 0
        /\ Cardinality(LinesOf({"json", "no_containers"})) = 1
        /\ \A i \in LinesOf({"json", "no_containers"}) :
              /\ (out[i].kind = "no_containers") <=> (interfaces = <<>>)
              /\ out[i].kind = "json" => out[i].body = interfaces


\* the import of a sink's library has failed: its two lines are on
\* standard output
ImportFailed ==
    LinesOf({"prometheus_client_required", "influxdb_client_required"}) # {}

\* C11: if the library of the selected continuous sink is unavailable at
\* startup, the process reports it and exits with code 1 before the endpoint
\* or the client is started and before any cycle.
C11_MissingLibraryIsFatalBeforeLoop ==
    ImportFailed =>
        /\ pc = "exited"
        /\ exit_code = Some(1)
        /\ driver \in {"prometheus", "influxdb"}
        /\ LinesOf({"prometheus_client_required", "influxdb_client_required"})
              = {Len(out) - 1}
        /\ endpoint = "none"
        /\ clients = 0
        /\ cycle = 0
        /\ queries = 0
        /\ metrics = EmptyMetrics
        /\ writes = <<>>

\* C11 witness: the gauge sink was selected, its library is missing and
\* the process has ended.
C11_Witness ==
    /\ driver = "prometheus"
    /\ LinesOf({"prometheus_client_required"}) # {}
    /\ pc = "exited"

\* C12: the push-sink driver constructs exactly one client, before the
\* first cycle, and every write of every cycle goes through it: the number
\* of clients constructed stays 1 over the cycles.
C12_OneClientForAllCycles ==
    /\ clients <= 1
    /\ (driver = "influxdb" /\ (cycle >= 1 \/ pc \in {"influx_resolve", "influx_write",
                                                       "influx_sleep"}))
          => clients = 1
    /\ \A i \in 1..Len(writes) : writes[i].client = 1
    /\ driver # "influxdb" => clients = 0

\* C12 witness: a write of the second cycle has gone through the client.
C12_Witness ==
    /\ driver = "influxdb"
    /\ cycle >= 2
    /\ writes # <<>>
    /\ writes[Len(writes)].ok

\* the positions of the gauge-sink loop
PromLoop == {"prom_clear", "prom_resolve", "prom_publish", "prom_sleep"}

\* a step of the driver's thread (a scrape is served by another thread and
\* leaves all of these alone)
DriverStep ==
    <<pc, cycle, queries, metrics, todo, interfaces>>'
        # <<pc, cycle, queries, metrics, todo, interfaces>>

\* one step of the gauge-sink loop keeps the order clear, resolve, publish,
\* sleep
PromOrderStep ==
    DriverStep =>
    /\ pc = "prom_clear" => pc' = "prom_resolve" /\ cycle' = cycle + 1
    /\ pc = "prom_resolve" => pc' \in {"prom_publish", "prom_sleep", "exited"}
    /\ pc = "prom_publish" => pc' \in {"prom_publish", "prom_sleep"}
    /\ pc = "prom_sleep" => pc' = "prom_clear"
    /\ (pc \in PromLoop /\ pc # "prom_clear") => cycle' = cycle
    /\ (pc \in PromLoop /\ queries' # queries) =>
          (pc = "prom_resolve" /\ queries' = queries + 1)
    /\ (pc \in PromLoop /\ metrics' # metrics) =>
          pc \in {"prom_clear", "prom_publish"}

\* C13: in every cycle of the gauge-sink driver the steps come in the order
\* clear, resolve, publish, sleep and at most one poll is in flight: the
\* resolve of cycle n+1 does not begin before the sleep of cycle n is over,
\* so the number of resolver calls never runs ahead of the cycles.
C13_ClearResolvePublishSleep ==
    /\ [][PromOrderStep]_vars
    /\ [](driver = "prometheus" =>
            /\ (pc = "prom_resolve" => queries = cycle - 1)
            /\ (pc \in {"prom_publish", "prom_sleep", "prom_clear"} => queries = cycle))

\* C13 witness: the resolve of the second cycle is about to begin, the
\* first cycle having been resolved once.
C13_Witness ==
    /\ pc = "prom_resolve"
    /\ cycle = 2
    /\ queries = 1

\* the tags of the points of an inventory's attachments
TagsOf(ifs) ==
    UNION {{<<ifs[i].name, ifs[i].nets[j].net_name, ifs[i].nets[j].eth_interface>> :
               j \in 1..Len(ifs[i].nets)} : i \in 1..Len(ifs)}

\* the number of attachments of an inventory
RECURSIVE CountNets(_)
CountNets(ifs) == IF ifs = <<>> THEN 0 ELSE Len(ifs[1].nets) + CountNets(Tail(ifs))

\* C14: in a push-sink cycle in which no write fails exactly one write is
\* attempted per attachment of the cycle's inventory, none missing and none
\* twice, and a write starts only when the one before it has completed:
\* while the cycle runs the writes made and the attachments left add up to
\* the inventory.
C14_OneWritePerAttachment ==
    driver = "influxdb" =>
        /\ (pc = "influx_sleep") =>
              /\ {writes[i].point.tags : i \in 1..Len(writes)} = TagsOf(interfaces)
              /\ Len(writes) = CountNets(interfaces)
              /\ \A i \in 1..Len(writes) : writes[i].ok
        /\ (pc = "influx_write") =>
              /\ Len(writes) + Len(todo) = CountNets(interfaces)
              /\ \A i \in 1..Len(writes) : writes[i].ok
        /\ \A i, j \in 1..Len(writes) :
              writes[i].point.tags = writes[j].point.tags => i = j

\* C14 witness: a cycle over two containers has ended with three writes,
\* all successful.
C14_Witness ==
    /\ pc = "influx_sleep"
    /\ Len(interfaces) = 2
    /\ Len(writes) >= 3


\* a step in which a container keeps the order of its matching networks
\* keeps the id of each of them
SameOrderSameIds ==
    \A i \in 1..Len(interfaces) : \A j \in 1..Len(interfaces') :
        (interfaces[i].name = interfaces'[j].name
            /\ NetSeq(interfaces[i]) = NetSeq(interfaces'[j]))
          => \A a \in 1..Len(interfaces[i].nets) :
                interfaces[i].nets[a].eth_interface = interfaces'[j].nets[a].eth_interface

\* C15: the interface id is derived in each poll from that poll's order
\* alone: two successive polls that report a container's matching networks
\* in the same order give each network the same id, whatever else the
\* runtime reports; with another order the same network can get another id
\* (the witness).
C15_IdsFollowEachPollsOrder ==
    [][SameOrderSameIds]_vars

\* C15 witness: the second poll of a driver has given a network another id
\* than the first, the container's set of matching networks being the same.
C15_Witness ==
    /\ cycle >= 2
    /\ last_query = "ok"
    /\ renumbered

C17_ScrapeIsServedCompleteSet ==
    scrape \notin {"in_between", "partial"}


\* a step that is a call of set_mode leaves alone everything but the mode
\* and the configuration field of the mode it names
SetModeFrame ==
    (set_mode_calls' # set_mode_calls) =>
        /\ set_mode_calls' = set_mode_calls + 1
        /\ mode' \notin {"prometheus"} => prometheus_port' = prometheus_port
        /\ mode' \notin {"influxdb"} => influx_config' = influx_config
        /\ UNCHANGED <<network_names, driver, pc, out, exit_code, metrics, clients,
                       interfaces>>

\* the driver named by a mode string
DriverOfMode(m) ==
    CASE m = "prometheus" -> "prometheus"
      [] m = "influxdb" -> "influxdb"
      [] OTHER -> "local"

\* C18: set_mode changes only the mode and the configuration field of the
\* mode it names, leaving the other mode's configuration and the allow-list
\* as they were; after any sequence of set_mode calls run() dispatches on
\* the mode set last alone, and a mode other than "prometheus" and
\* "influxdb" dispatches to the local-once driver.
C18_SetModeFrameAndDispatch ==
    /\ [][SetModeFrame]_vars
    /\ [](driver # "none" => driver = DriverOfMode(mode))
    /\ [](network_names = args.networks)

\* C18 witness: after three calls, the last naming an unknown mode, both
\* configurations are still set and run() has taken the local-once driver.
C18_Witness ==
    /\ set_mode_calls = 3
    /\ mode = "file"
    /\ prometheus_port = Some(9090)
    /\ influx_config # None
    /\ driver = "local"

====
